---- MODULE Spec2Model ----
(***************************************************************************)
(* Model of the visa-expiry notification job (send_notifications.py) and   *)
(* of the two tables it works on (customers, send_logs).                   *)
(*                                                                         *)
(* Time is an integer number of seconds since 2025-01-01 00:00:00 UTC.     *)
(* Texts are TLA+ strings; the Python None / SQL NULL is the value None.   *)
(* The rows of send_logs and the requests received by the gateway carry    *)
(* two history fields the program does not store (run, cid): the run that  *)
(* produced them and the id of the customer row they were produced for.    *)
(***************************************************************************)
EXTENDS Integers, Sequences, FiniteSets, TLC

\* ------------------------------------------------------------- bounds
\* Largest number of rows in the customers table.
MaxCust == 2
\* Largest number of runs of the job (used by SpecTwice only).
MaxRuns == 2

\* ---------------------------------------------------------- constants
\* requests.post(..., timeout=30)
GATEWAY_TIMEOUT == 30
\* random.uniform(6, 8)
PACE_MIN == 6
PACE_MAX == 8

None == "<None>"

SESSION == "default"

\* pytz.timezone('Asia/Dubai'): UTC+04:00, no daylight saving.
UAE_UTC_OFFSET == 4 * 60 * 60
SecondsPerDay == 24 * 60 * 60

\* ------------------------------------------------------ dates and text
\* Calendar date (day number, 0 = 2025-01-01) of instant t in Asia/Dubai.
UAEDate(t) == (t + UAE_UTC_OFFSET) \div SecondsPerDay

\* str(date) / strftime('%Y-%m-%d') for a day of January 2025.
DateStr(d) == "2025-01-" \o (IF d + 1 < 10 THEN "0" ELSE "") \o ToString(d + 1)

\* SQLite date(text): the text when it is a well-formed YYYY-MM-DD, else NULL.
SqlDate(text) ==
    IF /\ text # None
       /\ Len(text) = 10
       /\ SubSeq(text, 5, 5) = "-"
       /\ SubSeq(text, 8, 8) = "-"
    THEN text
    ELSE None

RECURSIVE LStrip(_)
LStrip(s) ==
    IF Len(s) > 0 /\ SubSeq(s, 1, 1) = " "
    THEN LStrip(SubSeq(s, 2, Len(s)))
    ELSE s

RECURSIVE RStrip(_)
RStrip(s) ==
    IF Len(s) > 0 /\ SubSeq(s, Len(s), Len(s)) = " "
    THEN RStrip(SubSeq(s, 1, Len(s) - 1))
    ELSE s

\* str.strip()
Strip(s) == RStrip(LStrip(s))

\* str.replace(ch, '') for a one-character ch
RECURSIVE Remove(_, _)
Remove(s, ch) ==
    IF Len(s) = 0 THEN s
    ELSE (IF SubSeq(s, 1, 1) = ch THEN "" ELSE SubSeq(s, 1, 1))
            \o Remove(SubSeq(s, 2, Len(s)), ch)

\* ------------------------------------------------------ customers table
Names == <<"Ali", "Sara", "Omar", "Lina">>
VisaTypes == <<"Employment", "Tourist", "Residence", "Family">>

\* Stored visa_expiry_date texts: zero-padded ISO dates, and the unpadded
\* form that strptime('%Y-%m-%d') also accepts in add_customer.
ExpiryTexts == {DateStr(0), DateStr(1), "2025-1-1"}

\* Stored (country_code, phone_number) pairs.
Contacts ==
    { [country_code |-> None,  phone_number |-> None],
      [country_code |-> None,  phone_number |-> ""],
      [country_code |-> " ",   phone_number |-> None],
      [country_code |-> "971", phone_number |-> "501234567"],
      [country_code |-> "+971 ", phone_number |-> "50-123 4567"] }

CustomerRow(i, e, k) ==
    [id |-> i, customer_name |-> Names[i], visa_type |-> VisaTypes[i],
     visa_expiry_date |-> e,
     country_code |-> k.country_code, phone_number |-> k.phone_number]

CustomerTables ==
    UNION { { [i \in 1..n |-> CustomerRow(i, es[i], ks[i])] :
                es \in [1..n -> ExpiryTexts], ks \in [1..n -> Contacts] } :
            n \in 0..MaxCust }

\* Instants at which cron may start the job: 12:00 UAE on day 0, seven
\* seconds before UAE midnight of day 0, and 01:00 UAE on day 1.
StartTimes ==
    { 8 * 60 * 60,
      SecondsPerDay - UAE_UTC_OFFSET - 7,
      SecondsPerDay - UAE_UTC_OFFSET + 60 * 60 }

VARIABLES
    now,            \* wall clock, seconds since the epoch (UTC)
    customers,      \* the customers table, in id order
    send_logs,      \* the send_logs table, in insertion order
    gateway_calls,  \* requests.post calls made to WAHA, in order
    pc,             \* position of the job
    run,            \* number of runs started so far
    today_uae,      \* main: today_uae
    cands,          \* main: customers (the fetched rows)
    idx,            \* main: position of the for loop in cands
    full_phone,     \* main: full_phone of the current candidate
    message,        \* main: message of the current candidate
    result,         \* main: (success, status) of the current candidate
    counts,         \* main: sent_count, failed_count, skipped_count
    delays,         \* time.sleep calls of the current run, in order
    exit_code,      \* exit status of the process, None while it runs
    outcome,        \* the final line the run wrote to its output
    past_runs,      \* how the earlier runs ended (date used, exit status)
    created_on,     \* web app: id and host date of every row it inserted
    response        \* web app: the HTTP response of the last request

vars == <<now, customers, send_logs, gateway_calls, pc, run, today_uae, cands,
          idx, full_phone, message, result, counts, delays, exit_code, outcome,
          past_runs, created_on, response>>

NoResult == [success |-> FALSE, status |-> None]
ZeroCounts == [sent |-> 0, failed |-> 0, skipped |-> 0]

Init ==
    /\ now \in StartTimes
    /\ customers \in CustomerTables
    /\ send_logs = <<>>
    /\ gateway_calls = <<>>
    /\ pc = "start"
    /\ run = 0
    /\ today_uae = None
    /\ cands = <<>>
    /\ idx = 0
    /\ full_phone = None
    /\ message = None
    /\ result = NoResult
    /\ counts = ZeroCounts
    /\ delays = <<>>
    /\ exit_code = None
    /\ outcome = None
    /\ past_runs = <<>>
    /\ created_on = <<>>
    /\ response = None

\* --------------------------------------------------- pieces of main()
\* Mutant of SelectExpiring: the WHERE clause keeps every dated row.
SelectDated(table, today_str) ==
    SelectSeq(table, LAMBDA c : SqlDate(c.visa_expiry_date) # None)

\* SELECT ... FROM customers WHERE date(visa_expiry_date) = ?
SelectExpiring(table, today_str) ==
    SelectSeq(table, LAMBDA c : SqlDate(c.visa_expiry_date) = today_str)

\* Mutant of OrEmpty: str(customer_dict.get(field)), None left as "None".
OrEmptyStr(v) == IF v = None THEN "None" ELSE v

\* customer_dict.get(field) or ''
OrEmpty(v) == IF v = None THEN "" ELSE v

\* full_phone: the stripped country code followed by the stripped number.
FullPhone(c) ==
    LET country_code == OrEmpty(c.country_code)
        phone_number == OrEmpty(c.phone_number)
    IN  (IF country_code # "" THEN Strip(country_code) ELSE "")
            \o (IF phone_number # "" THEN Strip(phone_number) ELSE "")

\* FIXED_TEMPLATE.format(...)
FormatMessage(customer_name, visa_type, visa_expiry_date, today_date) ==
    "Dear " \o customer_name \o ", your " \o visa_type
        \o " visa would be expired on " \o visa_expiry_date
        \o ", kindly renew it. Today's date: " \o today_date

\* Mutant of NotLast: the row is compared with the first row of the batch.
NotFirst(customer, rows) == customer # rows[1]

\* customer != customers[-1]: sqlite3.Row objects compare by column values.
NotLast(customer, rows) == customer # rows[Len(rows)]

\* Mutant of SkipLogArgs: the message and the status are exchanged.
SkipLogArgsSwapped(c) ==
    [customer_name |-> c.customer_name, phone |-> "",
     message |-> "skipped", status |-> "No phone number available"]

\* The arguments of the log_send_attempt call of the skip branch.
SkipLogArgs(c) ==
    [customer_name |-> c.customer_name, phone |-> "",
     message |-> "No phone number available", status |-> "skipped"]

\* The arguments of the log_send_attempt call of the send branch.
SendLogArgs(c) ==
    [customer_name |-> c.customer_name, phone |-> full_phone,
     message |-> message, status |-> result.status]

\* ------------------------------------------- send_whatsapp_message()
\* What one requests.post call can come back with: an HTTP response, or an
\* exception of the transport (raised after `elapsed` seconds).
GatewayReplies ==
    { [kind |-> "http", status_code |-> 200, text |-> "{\"id\":\"m1\"}", elapsed |-> 0],
      [kind |-> "http", status_code |-> 201, text |-> "Created", elapsed |-> 0],
      [kind |-> "http", status_code |-> 500, text |-> "Internal Server Error", elapsed |-> 0],
      [kind |-> "exception", status_code |-> 0, text |-> "Read timed out.",
       elapsed |-> GATEWAY_TIMEOUT] }

\* chat_id: the number without '+', ' ' and '-', followed by @c.us
ChatId(phone_number) ==
    Remove(Remove(Remove(phone_number, "+"), " "), "-") \o "@c.us"

\* Mutant of ClassifyReply: every 2xx response counts as sent (response.ok).
ClassifyReplyAny2xx(reply) ==
    IF reply.kind = "http"
    THEN IF reply.status_code >= 200 /\ reply.status_code < 300
         THEN [success |-> TRUE, status |-> "sent"]
         ELSE [success |-> FALSE,
               status |-> "failed: WAHA API error: " \o ToString(reply.status_code)
                             \o " - " \o reply.text]
    ELSE [success |-> FALSE,
          status |-> "error: Exception sending message: " \o reply.text]

\* The (success, status) pair returned for a reply.
ClassifyReply(reply) ==
    IF reply.kind = "http"
    THEN IF reply.status_code = 200
         THEN [success |-> TRUE, status |-> "sent"]
         ELSE [success |-> FALSE,
               status |-> "failed: WAHA API error: " \o ToString(reply.status_code)
                             \o " - " \o reply.text]
    ELSE [success |-> FALSE,
          status |-> "error: Exception sending message: " \o reply.text]

\* ------------------------------------------------- log_send_attempt()
\* The table after the call; the INSERT either commits a row or raises, and
\* the exception is swallowed (inserted = FALSE).
LogSendAttempt(table, args, inserted, cid) ==
    IF inserted
    THEN Append(table, [customer_name |-> args.customer_name,
                        phone |-> args.phone,
                        message |-> args.message,
                        status |-> args.status,
                        sent_at |-> now,
                        run |-> run, cid |-> cid])
    ELSE table

\* ------------------------------------------------------------ actions
ResetLocals ==
    /\ full_phone' = None
    /\ message' = None
    /\ result' = NoResult

\* The exit code of a run that returns from main().
EXIT_OK == 0
\* sys.exit(1)
EXIT_FAILURE == 1

Exit(code, line) ==
    /\ pc' = "exited"
    /\ exit_code' = code
    /\ outcome' = line

\* main(): the banner and today's date in the UAE.
Start ==
    /\ pc = "start"
    /\ run' = run + 1
    /\ today_uae' = UAEDate(now)
    /\ pc' = "connect"
    /\ UNCHANGED <<now, customers, send_logs, gateway_calls, cands, idx,
                   full_phone, message, result, counts, delays, exit_code,
                   outcome, past_runs, created_on, response>>

\* get_db_connection() returns a connection.
ConnectOk ==
    /\ pc = "connect"
    /\ pc' = "select"
    /\ UNCHANGED <<now, customers, send_logs, gateway_calls, run, today_uae,
                   cands, idx, full_phone, message, result, counts, delays,
                   exit_code, outcome, past_runs, created_on, response>>

\* get_db_connection() returns None: sys.exit(1).
ConnectFailed ==
    /\ pc = "connect"
    /\ Exit(EXIT_FAILURE, "Failed to connect to database. Exiting.")
    /\ UNCHANGED <<now, customers, send_logs, gateway_calls, run, today_uae,
                   cands, idx, full_phone, message, result, counts, delays,
                   past_runs, created_on, response>>

\* The query; with no row the run returns, else the loop starts.
Select ==
    /\ pc = "select"
    /\ LET rows == SelectExpiring(customers, DateStr(today_uae)) IN
        /\ cands' = rows
        /\ IF Len(rows) = 0
           THEN /\ Exit(EXIT_OK, "No customers to notify. Exiting.")
                /\ idx' = idx
           ELSE /\ pc' = "evaluate"
                /\ idx' = 1
                /\ UNCHANGED <<exit_code, outcome>>
    /\ counts' = ZeroCounts
    /\ UNCHANGED <<now, customers, send_logs, gateway_calls, run, today_uae,
                   full_phone, message, result, delays, past_runs, created_on,
                   response>>

\* The query raises: except Exception -> sys.exit(1).
SelectRaises ==
    /\ pc = "select"
    /\ Exit(EXIT_FAILURE, "Error in main process")
    /\ UNCHANGED <<now, customers, send_logs, gateway_calls, run, today_uae,
                   cands, idx, full_phone, message, result, counts, delays,
                   past_runs, created_on, response>>

\* The end of one iteration: the next candidate, or the summary and return.
NextCandidate ==
    /\ ResetLocals
    /\ IF idx < Len(cands)
       THEN /\ idx' = idx + 1
            /\ pc' = "evaluate"
            /\ UNCHANGED <<exit_code, outcome>>
       ELSE /\ idx' = idx
            /\ Exit(EXIT_OK, "Notification process completed:")

\* The head of the loop body: the destination number, then either the skip
\* branch or the rendering of the message.
Evaluate ==
    /\ pc = "evaluate"
    /\ LET c == cands[idx] IN
        /\ full_phone' = FullPhone(c)
        /\ IF FullPhone(c) = ""
           THEN /\ pc' = "log_skip"
                /\ message' = message
           ELSE /\ pc' = "send"
                /\ message' = FormatMessage(c.customer_name, c.visa_type,
                                            c.visa_expiry_date,
                                            DateStr(UAEDate(now)))
    /\ UNCHANGED <<now, customers, send_logs, gateway_calls, run, today_uae,
                   cands, idx, result, counts, delays, exit_code, outcome,
                   past_runs, created_on, response>>

\* The skip branch: the log row, the counter, continue.
LogSkip ==
    /\ pc = "log_skip"
    /\ \E inserted \in BOOLEAN :
         send_logs' = LogSendAttempt(send_logs, SkipLogArgs(cands[idx]),
                                     inserted, cands[idx].id)
    /\ counts' = [counts EXCEPT !.skipped = @ + 1]
    /\ NextCandidate
    /\ UNCHANGED <<now, customers, gateway_calls, run, today_uae, cands,
                   delays, past_runs, created_on, response>>

\* send_whatsapp_message(full_phone, message)
Send ==
    /\ pc = "send"
    /\ \E reply \in GatewayReplies :
        /\ gateway_calls' = Append(gateway_calls,
                                   [chatId |-> ChatId(full_phone),
                                    text |-> message,
                                    session |-> SESSION,
                                    reply |-> reply,
                                    run |-> run, cid |-> cands[idx].id])
        /\ result' = ClassifyReply(reply)
        /\ now' = now + reply.elapsed
    /\ pc' = "log_send"
    /\ UNCHANGED <<customers, send_logs, run, today_uae, cands, idx,
                   full_phone, message, counts, delays, exit_code, outcome,
                   past_runs, created_on, response>>

\* The send branch after the call: the log row, the counter, and the test
\* for the last candidate.
LogSend ==
    /\ pc = "log_send"
    /\ \E inserted \in BOOLEAN :
         send_logs' = LogSendAttempt(send_logs, SendLogArgs(cands[idx]),
                                     inserted, cands[idx].id)
    /\ counts' = IF result.success
                 THEN [counts EXCEPT !.sent = @ + 1]
                 ELSE [counts EXCEPT !.failed = @ + 1]
    /\ IF NotLast(cands[idx], cands)
       THEN /\ pc' = "pace"
            /\ UNCHANGED <<idx, full_phone, message, result, exit_code,
                           outcome>>
       ELSE NextCandidate
    /\ UNCHANGED <<now, customers, gateway_calls, run, today_uae, cands,
                   delays, past_runs, created_on, response>>

\* time.sleep(random.uniform(6, 8))
Pace ==
    /\ pc = "pace"
    /\ \E delay \in PACE_MIN..PACE_MAX :
        /\ delays' = Append(delays, [after |-> idx, seconds |-> delay])
        /\ now' = now + delay
    /\ NextCandidate
    /\ UNCHANGED <<customers, send_logs, gateway_calls, run, today_uae, cands,
                   counts, past_runs, created_on, response>>

\* Mutant of LoopRaises: the handler returns instead of calling sys.exit(1).
LoopRaisesAndReturns ==
    /\ pc \in {"evaluate", "send", "log_skip", "log_send", "pace"}
    /\ Exit(EXIT_OK, "Error in main process")
    /\ UNCHANGED <<now, customers, send_logs, gateway_calls, run, today_uae,
                   cands, idx, full_phone, message, result, counts, delays,
                   past_runs, created_on, response>>

\* An exception raised in the loop body outside send_whatsapp_message and
\* log_send_attempt (which catch their own): except Exception -> sys.exit(1).
LoopRaises ==
    /\ pc \in {"evaluate", "send", "log_skip", "log_send", "pace"}
    /\ Exit(EXIT_FAILURE, "Error in main process")
    /\ UNCHANGED <<now, customers, send_logs, gateway_calls, run, today_uae,
                   cands, idx, full_phone, message, result, counts, delays,
                   past_runs, created_on, response>>

\* cron starts the job again.
Rerun ==
    /\ pc = "exited"
    /\ run < MaxRuns
    /\ pc' = "start"
    /\ today_uae' = None
    /\ cands' = <<>>
    /\ idx' = 0
    /\ ResetLocals
    /\ counts' = ZeroCounts
    /\ delays' = <<>>
    /\ exit_code' = None
    /\ outcome' = None
    /\ past_runs' = Append(past_runs, [today_uae |-> today_uae,
                                       exit_code |-> exit_code])
    /\ UNCHANGED <<now, customers, send_logs, gateway_calls, run, created_on,
                   response>>

Next ==
    \/ Start
    \/ ConnectOk
    \/ ConnectFailed
    \/ Select
    \/ SelectRaises
    \/ Evaluate
    \/ LogSkip
    \/ Send
    \/ LogSend
    \/ Pace
    \/ LoopRaises

\* ------------------------------------------------------ web app (app.py)
\* Last host day on which the web app is observed.
MaxDay == 2

\* date.today() of the host, whose clock is UTC.
HostDate(t) == t \div SecondsPerDay

\* The fields of a text between its '-' characters.
RECURSIVE SplitDash(_)
SplitDash(s) ==
    IF Len(s) = 0 THEN <<"">>
    ELSE LET rest == SplitDash(SubSeq(s, 2, Len(s))) IN
         IF SubSeq(s, 1, 1) = "-"
         THEN <<"">> \o rest
         ELSE <<SubSeq(s, 1, 1) \o rest[1]>> \o Tail(rest)

IsDigit(ch) == \E d \in 0..9 : ToString(d) = ch
DigitOf(ch) == CHOOSE d \in 0..9 : ToString(d) = ch

\* The value of a field of one or two digits, -1 for any other field.
NumberOf(f) ==
    IF Len(f) = 1 /\ IsDigit(f) THEN DigitOf(f)
    ELSE IF Len(f) = 2 /\ IsDigit(SubSeq(f, 1, 1)) /\ IsDigit(SubSeq(f, 2, 2))
         THEN 10 * DigitOf(SubSeq(f, 1, 1)) + DigitOf(SubSeq(f, 2, 2))
         ELSE -1

\* datetime.strptime(text, '%Y-%m-%d').date() for the days of January 2025:
\* the day number, or not valid (ValueError). Month and day may be unpadded.
ParseDate(text) ==
    LET f == SplitDash(text) IN
    IF /\ Len(f) = 3
       /\ f[1] = "2025"
       /\ NumberOf(f[2]) = 1
       /\ NumberOf(f[3]) \in 1..31
    THEN [valid |-> TRUE, day |-> NumberOf(f[3]) - 1]
    ELSE [valid |-> FALSE, day |-> 0]

\* value or None
OrNone(v) == IF v = "" THEN None ELSE v

\* The UNIQUE (customer_name, visa_expiry_date) constraint of the table.
Conflicts(table, name, expiry) ==
    \E i \in 1..Len(table) :
        /\ table[i].customer_name = name
        /\ table[i].visa_expiry_date = expiry

\* The table after INSERT INTO customers of one row.
InsertCustomer(table, name, visa_type, expiry, country_code, phone_number) ==
    Append(table, [id |-> Len(table) + 1, customer_name |-> name,
                   visa_type |-> visa_type, visa_expiry_date |-> expiry,
                   country_code |-> country_code,
                   phone_number |-> phone_number])

\* The ids of the rows of `after` that `before` does not have, with the
\* host date of their insertion.
CreatedRows(before, after) ==
    [k \in 1..(Len(after) - Len(before)) |->
        [id |-> after[Len(before) + k].id, on |-> HostDate(now)]]

\* Bodies of POST /api/customers.
AddRequests ==
    [name : {"", "Ali"}, visa_type : {"Employment"},
     expiry_date : {DateStr(0), DateStr(1), DateStr(2), "2025-1-3", "soon"},
     country_code : {"", "971"}, phone : {"", "501234567"}]

\* Records of the data list of POST /api/commit-import.
ImportRecords ==
    [customer_name : {"Ali", "Sara"}, visa_type : {"Tourist"},
     expiry_date : {DateStr(0), DateStr(1), "2025-1-3", "soon"},
     country_code : {None}, phone_number : {"501234567"}]

ImportLists ==
    {<<>>} \cup {<<a>> : a \in ImportRecords}
           \cup {<<a, b>> : a \in ImportRecords, b \in ImportRecords}

\* add_customer: POST /api/customers
AddCustomer ==
    /\ Len(customers) < MaxCust
    /\ \E data \in AddRequests, connected \in BOOLEAN :
        IF ~connected
        THEN /\ response' = [status |-> 500, error |-> "Database connection failed"]
             /\ UNCHANGED <<customers, created_on>>
        ELSE IF data.name = "" \/ data.visa_type = "" \/ data.expiry_date = ""
        THEN /\ response' = [status |-> 400, error |-> "Missing required fields (Name, Visa Type, Expiry Date)"]
             /\ UNCHANGED <<customers, created_on>>
        ELSE IF ~ParseDate(data.expiry_date).valid
        THEN /\ response' = [status |-> 400, error |-> "Invalid date format. Use YYYY-MM-DD."]
             /\ UNCHANGED <<customers, created_on>>
        ELSE IF ParseDate(data.expiry_date).day <= HostDate(now)
        THEN /\ response' = [status |-> 400, error |-> "Expiry date must be in the future."]
             /\ UNCHANGED <<customers, created_on>>
        ELSE IF Conflicts(customers, data.name, data.expiry_date)
        THEN /\ response' = [status |-> 409, error |-> "Customer with this name and expiry date already exists."]
             /\ UNCHANGED <<customers, created_on>>
        ELSE LET table == InsertCustomer(customers, data.name, data.visa_type,
                                         data.expiry_date,
                                         OrNone(data.country_code),
                                         OrNone(data.phone))
             IN  /\ customers' = table
                 /\ created_on' = created_on \o CreatedRows(customers, table)
                 /\ response' = [status |-> 201, error |-> None]
    /\ UNCHANGED <<now, send_logs, gateway_calls, pc, run, today_uae, cands,
                   idx, full_phone, message, result, counts, delays,
                   exit_code, outcome, past_runs>>

\* The loop of commit_excel_import over the records: the table and the two
\* counters. A record whose date does not parse is skipped, a record in
\* conflict with a row is left out (ON CONFLICT DO NOTHING), any other is
\* inserted with its date in ISO form; no record is compared with today.
RECURSIVE ImportRows(_, _)
ImportRows(state, data) ==
    IF Len(data) = 0 THEN state
    ELSE LET rec == Head(data)
             expiry_date == ParseDate(rec.expiry_date)
             stored == DateStr(expiry_date.day)
         IN  IF ~expiry_date.valid
                \/ Conflicts(state.table, rec.customer_name, stored)
             THEN ImportRows([state EXCEPT !.skipped = @ + 1], Tail(data))
             ELSE ImportRows(
                    [state EXCEPT
                        !.table = InsertCustomer(@, rec.customer_name,
                                                 rec.visa_type, stored,
                                                 rec.country_code,
                                                 rec.phone_number),
                        !.imported = @ + 1],
                    Tail(data))

\* commit_excel_import: POST /api/commit-import
CommitExcelImport ==
    /\ \E data \in ImportLists, connected \in BOOLEAN :
        /\ Len(customers) + Len(data) <= MaxCust
        /\ IF Len(data) = 0
           THEN /\ response' = [status |-> 400, error |-> "No data to import"]
                /\ UNCHANGED <<customers, created_on>>
           ELSE IF ~connected
           THEN /\ response' = [status |-> 500, error |-> "Database connection failed"]
                /\ UNCHANGED <<customers, created_on>>
           ELSE LET done == ImportRows([table |-> customers, imported |-> 0,
                                        skipped |-> 0], data)
                IN  /\ customers' = done.table
                    /\ created_on' = created_on \o CreatedRows(customers, done.table)
                    /\ response' = [status |-> 200, error |-> None,
                                    imported |-> done.imported,
                                    skipped |-> done.skipped]
    /\ UNCHANGED <<now, send_logs, gateway_calls, pc, run, today_uae, cands,
                   idx, full_phone, message, result, counts, delays,
                   exit_code, outcome, past_runs>>

\* Midnight of the host passes.
DayPasses ==
    /\ HostDate(now) < MaxDay
    /\ now' = now + SecondsPerDay
    /\ UNCHANGED <<customers, send_logs, gateway_calls, pc, run, today_uae,
                   cands, idx, full_phone, message, result, counts, delays,
                   exit_code, outcome, past_runs, created_on, response>>

\* The web app alone, from an empty customers table at 08:00 UTC of day 0.
InitApp ==
    /\ Init
    /\ now = 8 * 60 * 60
    /\ customers = <<>>

NextApp ==
    \/ AddCustomer
    \/ CommitExcelImport
    \/ DayPasses

SpecApp == InitApp /\ [][NextApp]_vars

\* ------------------------------------------------------------ history
\* The customers row with the given id (ids are positions in the table).
RowOf(cid) == customers[cid]

\* Positions of the send_logs rows written by run r for customer cid.
LogRowsOf(r, cid) ==
    {k \in 1..Len(send_logs) : send_logs[k].run = r /\ send_logs[k].cid = cid}

\* Positions of the gateway calls made by run r for customer cid.
CallsOf(r, cid) ==
    {k \in 1..Len(gateway_calls) :
        gateway_calls[k].run = r /\ gateway_calls[k].cid = cid}

Completed == pc = "exited" /\ outcome = "Notification process completed:"

\* country_code and phone_number both empty or absent.
NoNumber(c) == c.country_code \in {None, ""} /\ c.phone_number \in {None, ""}

\* s has sub as a substring.
RECURSIVE Contains(_, _)
Contains(s, sub) ==
    IF Len(s) < Len(sub) THEN FALSE
    ELSE \/ SubSeq(s, 1, Len(sub)) = sub
         \/ Contains(SubSeq(s, 2, Len(s)), sub)

\* ------------------------------------------------------------- claims

\* C1: for every customer selected by a run, that run appends exactly one
\* send_logs row for that customer, whichever branch is taken. Stated for
\* the runs that complete the loop; the code violates it (a failed INSERT is
\* swallowed by log_send_attempt and the loop goes on).
C1_ExactlyOneLogRowPerCandidate ==
    Completed =>
        \A i \in 1..Len(cands) : Cardinality(LogRowsOf(run, cands[i].id)) = 1

\* C2: a candidate whose country_code and phone_number are both empty or
\* absent always takes the skip branch, and the gateway is never called for it.
C2_NoNumberIsSkippedWithoutCall ==
    /\ \A k \in 1..Len(gateway_calls) : ~NoNumber(RowOf(gateway_calls[k].cid))
    /\ pc \in {"send", "log_send", "pace"} => ~NoNumber(cands[idx])
    /\ Completed =>
          counts.skipped >= Cardinality({i \in 1..Len(cands) : NoNumber(cands[i])})

\* C2 witness: a run completed in which a candidate without any number was
\* skipped (counted as skipped, its row logged) next to one that was sent to.
C2_Witness ==
    /\ Completed
    /\ counts.skipped = 1
    /\ Len(gateway_calls) = 1
    /\ \E k \in 1..Len(send_logs) : NoNumber(RowOf(send_logs[k].cid))

\* C3: a gateway failure for one candidate (a reply other than HTTP 200, or
\* an exception of the transport) is recorded in the log and does not abort
\* the run: when the run ends, the failure has its row, every later candidate
\* has been logged too, and the exit code is 0. The code violates it: the row
\* is lost when the INSERT raises (C1), and an exception in the loop body
\* ends the run before the later candidates (C9).
C3_GatewayFailureIsLoggedAndRunGoesOn ==
    pc = "exited" =>
        \A k \in 1..Len(gateway_calls) :
            LET g == gateway_calls[k] IN
            (g.run = run /\ ~(g.reply.kind = "http" /\ g.reply.status_code = 200)) =>
                /\ \E l \in LogRowsOf(run, g.cid) :
                      /\ send_logs[l].status # "sent"
                      /\ Contains(send_logs[l].status, g.reply.text)
                /\ \A i \in 1..Len(cands) : LogRowsOf(run, cands[i].id) # {}
                /\ exit_code = EXIT_OK

\* C4 as stated: a completed run with N candidates has made exactly N-1
\* pacing delays when N > 1 and none when N <= 1, for every mix of skipped,
\* sent and failed candidates. Violated: a skipped candidate is followed by
\* no delay.
C4_DelaysAreNMinusOne ==
    Completed =>
        Len(delays) = IF Len(cands) > 1 THEN Len(cands) - 1 ELSE 0

\* C4 as amended: at every point of a run, exactly one pacing delay of 6 to 8
\* seconds has been made after each candidate that the loop has left, that
\* was sent to the gateway (sent or failed) and that is not the last one; no
\* delay follows a skipped candidate or the final candidate.
C4_DelayAfterEachNonFinalSend ==
    /\ \A k \in 1..Len(delays) :
          /\ delays[k].seconds \in 6..8
          /\ delays[k].after < Len(cands)
    /\ \A i \in 1..Len(cands) :
          Cardinality({k \in 1..Len(delays) : delays[k].after = i})
            = IF i < idx /\ CallsOf(run, cands[i].id) # {} THEN 1 ELSE 0

\* C4 witness: a completed run of two candidates, the first skipped and the
\* second sent to the gateway, with no pacing delay at all.
C4_Witness ==
    /\ Completed
    /\ Len(cands) = 2
    /\ CallsOf(run, cands[1].id) = {}
    /\ CallsOf(run, cands[2].id) # {}
    /\ Len(delays) = 0

\* C5: the status of a send attempt is "sent" if and only if the gateway
\* answered HTTP 200; for any other HTTP status or an exception of the
\* transport it is a failure whose status differs from "sent" and carries the
\* status code and response body, or the description of the exception. Both
\* for the pair returned to main and for the rows it logs.
C5_SentIffHttp200 ==
    LET Ok(g) == g.reply.kind = "http" /\ g.reply.status_code = 200
        Classified(g, success, status) ==
            /\ success <=> Ok(g)
            /\ status = "sent" <=> Ok(g)
            /\ ~Ok(g) => Contains(status, g.reply.text)
            /\ (~Ok(g) /\ g.reply.kind = "http") =>
                  Contains(status, ToString(g.reply.status_code))
    IN  /\ pc \in {"log_send", "pace"} =>
              Classified(gateway_calls[Len(gateway_calls)],
                         result.success, result.status)
        /\ \A k \in 1..Len(gateway_calls) :
              \A l \in LogRowsOf(gateway_calls[k].run, gateway_calls[k].cid) :
                  Classified(gateway_calls[k], send_logs[l].status = "sent",
                             send_logs[l].status)

\* C5 witness: the log holds a row "sent" for a reply 200 and a failure row
\* for a reply 201.
C5_Witness ==
    /\ \E l \in 1..Len(send_logs) : send_logs[l].status = "sent"
    /\ \E k \in 1..Len(gateway_calls) :
          /\ gateway_calls[k].reply.status_code = 201
          /\ LogRowsOf(gateway_calls[k].run, gateway_calls[k].cid) # {}

\* C6: two runs on the same UAE day over the same customers, both completing
\* the loop, give every eligible customer (non-empty destination) two gateway
\* send attempts and two log rows in total. The code makes the two attempts
\* but loses rows when an INSERT raises (C1).
C6_TwoRunsTwoAttemptsTwoRows ==
    (/\ Completed
     /\ Len(past_runs) = 1
     /\ past_runs[1].exit_code = EXIT_OK
     /\ past_runs[1].today_uae = today_uae) =>
        \A i \in 1..Len(cands) :
            FullPhone(cands[i]) # "" =>
                /\ Cardinality(CallsOf(1, cands[i].id) \cup CallsOf(2, cands[i].id)) = 2
                /\ Cardinality(LogRowsOf(1, cands[i].id) \cup LogRowsOf(2, cands[i].id)) = 2

\* C7: the job never selects, sends to or logs a customer whose
\* visa_expiry_date differs from the calendar date of Asia/Dubai (UTC+4) at
\* the start of the run.
C7_OnlyCustomersExpiringToday ==
    pc # "start" =>
        /\ pc \in {"connect", "select"} =>
              today_uae = (now + 4 * 3600) \div 86400
        /\ \A i \in 1..Len(cands) :
              cands[i].visa_expiry_date = DateStr(today_uae)
        /\ \A k \in 1..Len(gateway_calls) :
              gateway_calls[k].run = run =>
                  RowOf(gateway_calls[k].cid).visa_expiry_date = DateStr(today_uae)
        /\ \A l \in 1..Len(send_logs) :
              send_logs[l].run = run =>
                  RowOf(send_logs[l].cid).visa_expiry_date = DateStr(today_uae)

\* C7 witness: a run started when the UAE date is one day ahead of the UTC
\* date has logged a customer while the table holds a customer expiring on
\* another day.
C7_Witness ==
    /\ Completed
    /\ today_uae = 1
    /\ now \div 86400 = 0
    /\ Len(send_logs) >= 1
    /\ \E c \in 1..Len(customers) :
          customers[c].visa_expiry_date # DateStr(today_uae)

\* C8 as stated: the row logged for a candidate skipped for want of a number
\* (phone empty, country_code absent) has status "No phone number available".
\* Violated: that text is the row's message, its status is "skipped".
C8_SkipStatusIsNoPhoneText ==
    \A l \in 1..Len(send_logs) :
        (/\ RowOf(send_logs[l].cid).phone_number = ""
         /\ RowOf(send_logs[l].cid).country_code = None) =>
            send_logs[l].status = "No phone number available"

\* C8 as amended: the row logged for a candidate skipped for want of a
\* number has status "skipped", message "No phone number available" and an
\* empty phone.
C8_SkipRowIsSkippedWithNoPhoneMessage ==
    \A l \in 1..Len(send_logs) :
        NoNumber(RowOf(send_logs[l].cid)) =>
            /\ send_logs[l].status = "skipped"
            /\ send_logs[l].message = "No phone number available"
            /\ send_logs[l].phone = ""

\* C8 witness: a row was logged for a candidate with phone "" and no
\* country code.
C8_Witness ==
    \E l \in 1..Len(send_logs) :
        /\ RowOf(send_logs[l].cid).phone_number = ""
        /\ RowOf(send_logs[l].cid).country_code = None

\* C9: an exception raised while one candidate is processed in the loop is
\* caught for that candidate and does not keep the remaining candidates from
\* being processed: whenever a run that entered the loop has ended, every
\* candidate has been processed (counted as sent, failed or skipped). The
\* code violates it: the only handler is the one around the whole loop.
C9_LoopExceptionLeavesNoCandidateOut ==
    (pc = "exited" /\ idx >= 1) =>
        counts.sent + counts.failed + counts.skipped = Len(cands)

\* C10: a run that completes the candidate loop, or finds no candidate,
\* exits with code 0; a failed database connection or an exception escaping
\* the loop ends the run with a non-zero code, and no log row is written
\* after that point.
C10_ExitStatus ==
    /\ [](pc = "exited" =>
            /\ exit_code = 0 <=>
                  \/ Len(cands) = 0 /\ outcome = "No customers to notify. Exiting."
                  \/ /\ Len(cands) > 0
                     /\ counts.sent + counts.failed + counts.skipped = Len(cands)
            /\ exit_code # 0 <=>
                  \/ outcome = "Failed to connect to database. Exiting."
                  \/ outcome = "Error in main process"
            /\ exit_code # 0 =>
                  \A i \in 1..Len(cands) :
                      i > idx => LogRowsOf(run, cands[i].id) = {})
    /\ [][pc = "exited" => send_logs' = send_logs]_vars

\* C10 witness: a run ended by an exception at its second candidate, with
\* exit code 1, after the first candidate was logged.
C10_Witness ==
    /\ pc = "exited"
    /\ exit_code = 1
    /\ idx = 2
    /\ Len(send_logs) = 1

\* The rows of send_logs written by the current run, in order.
RunRows == SelectSeq(send_logs, LAMBDA r : r.run = run)

\* C11: at every point of a run, also after an abort, the rows the run has
\* committed are, in the same order, the entries of the candidates it has
\* processed so far: one row per processed candidate, the k-th row being the
\* k-th candidate's. The code violates it only through C1: rows are appended
\* in evaluation order and never removed, but a candidate whose INSERT raised
\* has no row at all when the next candidate is evaluated.
C11_RowsAreTheProcessedCandidatesInOrder ==
    LET processed == counts.sent + counts.failed + counts.skipped IN
    /\ Len(RunRows) = processed
    /\ \A k \in 1..Len(RunRows) :
          k <= Len(cands) /\ RunRows[k].cid = cands[k].id

\* The part of C11 that the code keeps: the rows of a run are rows of
\* candidates already processed, in evaluation order, at most one each.
C11_RowsInEvaluationOrder ==
    LET processed == counts.sent + counts.failed + counts.skipped IN
    \A k \in 1..Len(RunRows) :
        \E i \in 1..processed :
            /\ RunRows[k].cid = cands[i].id
            /\ \A j \in 1..(k - 1) :
                  \E h \in 1..(i - 1) : RunRows[j].cid = cands[h].id

\* The part of C11 that the code keeps: send_logs only grows at its end; no
\* step removes, reorders or rewrites a committed row.
C11_AppendOnly ==
    [][/\ Len(send_logs') >= Len(send_logs)
       /\ SubSeq(send_logs', 1, Len(send_logs)) = send_logs]_vars

\* C13: in every message rendered during a run, the today_date placeholder
\* is the UAE date that selected the candidates (today_uae), and so equals
\* the visa_expiry_date of the same message, also when the UAE date advances
\* while the run is still going. The code violates it: the date is computed
\* again from the clock for every candidate.
C13_TodayDateIsTheSelectionDate ==
    LET Expected(c) ==
            FormatMessage(c.customer_name, c.visa_type, DateStr(today_uae),
                          DateStr(today_uae))
    IN  pc # "start" =>
          /\ pc \in {"send", "log_send", "pace"} => message = Expected(cands[idx])
          /\ \A k \in 1..Len(gateway_calls) :
                gateway_calls[k].run = run =>
                    gateway_calls[k].text = Expected(RowOf(gateway_calls[k].cid))

\* C12: every customers row created by add_customer or by
\* commit_excel_import has a visa_expiry_date strictly later than the date
\* on which it was created. The code violates it: commit_excel_import
\* inserts its records without comparing their date with today.
C12_CreatedRowsExpireInTheFuture ==
    \A k \in 1..Len(created_on) :
        ParseDate(RowOf(created_on[k].id).visa_expiry_date).day > created_on[k].on

Spec == Init /\ [][Next]_vars

NextTwice == Next \/ Rerun

SpecTwice == Init /\ [][NextTwice]_vars

====
